---- MODULE Spec2Model ----
(***************************************************************************)
(* Model of src/main.py: the process-wide DataExtractor, its lazily        *)
(* created aiohttp session, the per-site pipeline (get_site_token ->       *)
(* query_site_data) with its bounded retry loops, the asyncio.gather       *)
(* fan-out and the aggregation loop of extract_all_sites_data.             *)
(*                                                                         *)
(* Coroutines run atomically between suspension points.  The suspension    *)
(* points are the network calls (session.post), the backoff sleeps         *)
(* (asyncio.sleep), the gather itself and the await of session.close().    *)
(* Strings that are only compared for order or equality (site names,       *)
(* member ids, created_at timestamps, tokens) are modelled by naturals.    *)
(* The pass-through member fields username/name/email are not modelled.    *)
(***************************************************************************)
EXTENDS Integers, Sequences, FiniteSets, TLC

\* ---------------------------------------------------------------- bounds
NumSites == 2
NumRequests == 3

\* ------------------------------------------------------ program constants
max_retries == 10
MaxWait == 30
None == 0
Unknown == 0

Requests == 1..NumRequests
Sites == 1..NumSites

Min(a, b) == IF a < b THEN a ELSE b

\* Faulty variant of WaitTime: the backoff is not capped.
WaitTimeUncapped(attempt) == 2 ^ attempt

\* wait_time = min(2 ** attempt, 30)
WaitTime(attempt) == Min(2 ^ attempt, MaxWait)

\* SiteConfig.name of the site at position s of all_sites (distinct labels,
\* decreasing along the list so that input order differs from name order).
SiteName(s) == NumSites + 1 - s

\* The bearer token the authentication endpoint issues for site s of request r.
TokenOf(r, s) == 10 * r + s

\* site_info attached to a successful query result.
SiteInfo(r, s) == [name |-> SiteName(s), client_id |-> 100 + SiteName(s)]

\* ------------------------------------------------------ upstream payloads
Note(id, t) == [id |-> id, created_at |-> t]
Member(id, notes) == [id |-> id, member_notes |-> notes]

\* A well-formed `data` object: 2 members (ids out of order), 3 notes, two of
\* them with the same created_at.
PayA ==
  [member_aggregate |-> [aggregate |-> [count |-> 2]],
   member |-> << Member(2, << Note(1, 3), Note(2, 1) >>),
                 Member(1, << Note(3, 3) >>) >>]

\* A well-formed `data` object: 1 member without notes.
PayB ==
  [member_aggregate |-> [aggregate |-> [count |-> 1]],
   member |-> << Member(3, << >>) >>]

\* A `data` object without member_aggregate: 1 member with 1 note.
PayC == [member |-> << Member(4, << Note(4, 2) >>) >>]

\* The JSON value null in the place of the `data` object.
PayNull == [null |-> TRUE]

IsNull(x) == "null" \in DOMAIN x

Payloads == << PayA, PayB, PayNull, PayC >>

\* ------------------------------------------------------ upstream scripts
\* What the two endpoints answer to one site during one request:
\*   authOkAt  the first authentication call that is answered with a token
\*             (0: never);
\*   q, qAt    the final answer of the query endpoint ("data", "errors", or
\*             "never" a usable body) and the first call that gets it;
\*   payload   index into Payloads of the data object answered.
AllScripts ==
  [authOkAt : 0..2, q : {"never", "errors", "data"},
   qAt : 0..2 \cup {max_retries}, payload : 0..4]

SiteScripts ==
  { sc \in AllScripts :
      \/ sc.authOkAt = 0 /\ sc.q = "never" /\ sc.qAt = 0 /\ sc.payload = 0
      \/ sc.authOkAt = 1 /\ sc.q = "never" /\ sc.qAt = 0 /\ sc.payload = 0
      \/ sc.authOkAt = 1 /\ sc.q = "errors" /\ sc.qAt \in 1..2 /\ sc.payload = 0
      \/ sc.authOkAt = 1 /\ sc.q = "data" /\ sc.qAt = 1 /\ sc.payload \in 1..4
      \/ sc.authOkAt = 1 /\ sc.q = "data" /\ sc.qAt = 2 /\ sc.payload = 1
      \/ sc.authOkAt = 2 /\ sc.q = "data" /\ sc.qAt = 1 /\ sc.payload = 2
      \/ sc.authOkAt = 1 /\ sc.q = "data" /\ sc.qAt = max_retries
           /\ sc.payload = 2 }

\* A response is [exc |-> TRUE] (transport exception) or [status, body].
Exc == [exc |-> TRUE]
IsExc(resp) == "exc" \in DOMAIN resp
Http(status, body) == [status |-> status, body |-> body]
EmptyBody == [other |-> TRUE]

\* The kinds of failing answer alternate with the call number so that every
\* failure branch of the retry loops is exercised.
FailingResponse(n) ==
  CASE n % 3 = 1 -> Http(500, EmptyBody)
    [] n % 3 = 2 -> Exc
    [] OTHER     -> Http(200, EmptyBody)

\* The answer of the authentication endpoint to the n-th call that reaches it.
\* Odd sites get the token under result.authToken, even sites under token.
AuthResponse(r, s, sc, n) ==
  IF sc.authOkAt # 0 /\ n >= sc.authOkAt
    THEN IF s % 2 = 1
           THEN Http(200, [result |-> [authToken |-> TokenOf(r, s)]])
           ELSE Http(200, [token |-> TokenOf(r, s)])
    ELSE FailingResponse(n)

\* The answer of the query endpoint to the n-th call that reaches it.
QueryResponse(sc, n) ==
  IF sc.q # "never" /\ n >= sc.qAt
    THEN IF sc.q = "errors"
           THEN Http(200, [errors |-> << 1 >>])
           ELSE Http(200, [data |-> Payloads[sc.payload]])
    ELSE FailingResponse(n)

\* ------------------------------------------------------------------ state
VARIABLES
  session,   \* extractor.session: None or the id of a session object
  sessions,  \* the session objects ever created: sessions[id] is the number
             \* of times close() has run on it (closed iff > 0)
  req,       \* per request: the position of extract_all_sites_data and its locals
  pipe       \* per request and site: the position of process_single_site and its locals

vars == << session, sessions, req, pipe >>

Closed(heap, sid) == heap[sid] > 0

\* Faulty variant of CreateSession: every call constructs a session.
CreateSessionAlways(sess, heap) ==
  [id |-> Len(heap) + 1, heap |-> Append(heap, 0)]

\* Lines 38-42: create_session constructs a session only when the extractor
\* holds none; the check and the construction run without suspension.
CreateSession(sess, heap) ==
  IF sess # None THEN [id |-> sess, heap |-> heap]
  ELSE [id |-> Len(heap) + 1, heap |-> Append(heap, 0)]

\* create_session: the session returned, and the heap afterwards.
CreateSessionId(sess, heap) == CreateSession(sess, heap).id
CreateSessionHeap(sess, heap) == CreateSession(sess, heap).heap

NoResult == [pending |-> TRUE]

InitPipe ==
  [pc |-> "init", attempt |-> 0, session |-> None, token |-> None,
   result |-> NoResult, authCalls |-> 0, queryCalls |-> 0,
   authSleeps |-> 0, querySleeps |-> 0, wait |-> 0, closedCalls |-> 0,
   lastError |-> "none"]

EmptyMerged ==
  [success_count |-> 0, error_count |-> 0, total_member_count |-> 0,
   total_notes_count |-> 0, sites_data |-> << >>, errors |-> << >>,
   merged_notes |-> << >>, members_info |-> << >>]

NewReq(pc, sites) ==
  [pc |-> pc, all_sites |-> sites, results |-> << >>, merged_data |-> EmptyMerged,
   exit |-> "none", finished |-> << >>]

NSites(r) == Len(req[r].all_sites)

\* ------------------------------------------------------- get_site_token
\* Lines 84, 87, 90 and 181, 184: what a failed attempt logs. The error is
\* written to the log only; lastError keeps the last one logged.
ErrorOf(resp) ==
  IF IsExc(resp) THEN "exception"
  ELSE IF resp.status # 200 THEN "status" ELSE "no_payload"

Logged(p, resp) == [p EXCEPT !.lastError = ErrorOf(resp)]

\* Lines 74-78: result.authToken first, then the top-level token.
ParseToken(body) ==
  IF "result" \in DOMAIN body /\ "authToken" \in DOMAIN body.result
       /\ body.result.authToken # None
    THEN body.result.authToken
    ELSE IF "token" \in DOMAIN body /\ body.token # None THEN body.token ELSE None

\* Lines 71-90: the token an attempt yields (None when it yields none).
TokenFrom(resp) ==
  IF IsExc(resp) THEN None
  ELSE IF resp.status = 200 THEN ParseToken(resp.body) ELSE None

\* Faulty variant of AfterAuthFailure: the pipeline goes on to the query when the
\* authentication attempts are exhausted.
AfterAuthFailureQueries(p, name) ==
  IF p.attempt < max_retries
    THEN [p EXCEPT !.pc = "auth_sleep", !.authSleeps = @ + 1,
                   !.wait = WaitTime(p.attempt)]
    ELSE [p EXCEPT !.pc = "query_wait", !.attempt = 1, !.queryCalls = @ + 1]

\* Faulty variant of AfterAuthFailure: when the attempts are exhausted the
\* pipeline neither returns nor retries.
AfterAuthFailureHangs(p, name) ==
  IF p.attempt < max_retries
    THEN [p EXCEPT !.pc = "auth_sleep", !.authSleeps = @ + 1,
                   !.wait = WaitTime(p.attempt)]
    ELSE [p EXCEPT !.pc = "auth_hung"]

\* Lines 92-98 and 200-201: after a failed authentication attempt, sleep when
\* attempts remain; otherwise get_site_token returns None and the pipeline
\* returns its error without querying.
AfterAuthFailure(p, name) ==
  IF p.attempt < max_retries
    THEN [p EXCEPT !.pc = "auth_sleep", !.authSleeps = @ + 1,
                   !.wait = WaitTime(p.attempt)]
    ELSE [p EXCEPT !.pc = "done", !.result = [error |-> "no_token", site |-> name]]

\* Lines 60-69, 89-90: one attempt of the loop. session.post on a closed
\* session raises at once (caught at line 89) and nothing reaches the endpoint.
IssueAuth(p, closed, name) ==
  IF closed
    THEN AfterAuthFailure(Logged([p EXCEPT !.closedCalls = @ + 1], Exc), name)
    ELSE [p EXCEPT !.pc = "auth_wait", !.authCalls = @ + 1]

\* ------------------------------------------------------ query_site_data
\* Faulty variant of AfterQueryFailure: one more attempt follows the last one.
AfterQueryFailureOneMore(p, name) ==
  IF p.attempt <= max_retries
    THEN [p EXCEPT !.pc = "query_sleep", !.querySleeps = @ + 1,
                   !.wait = WaitTime(p.attempt)]
    ELSE [p EXCEPT !.pc = "done", !.result = [error |-> "query_failed", site |-> name]]

\* Lines 186-192.
AfterQueryFailure(p, name) ==
  IF p.attempt < max_retries
    THEN [p EXCEPT !.pc = "query_sleep", !.querySleeps = @ + 1,
                   !.wait = WaitTime(p.attempt)]
    ELSE [p EXCEPT !.pc = "done", !.result = [error |-> "query_failed", site |-> name]]

\* Lines 152-161, 183-184.
IssueQuery(p, closed, name) ==
  IF closed
    THEN AfterQueryFailure(Logged([p EXCEPT !.closedCalls = @ + 1], Exc), name)
    ELSE [p EXCEPT !.pc = "query_wait", !.queryCalls = @ + 1]

\* Faulty variant of HandleQueryResponse: an error list is retried like any failure.
HandleQueryResponseRetriesErrors(p, resp, name, info) ==
  IF IsExc(resp) THEN AfterQueryFailure(Logged(p, resp), name)
  ELSE IF resp.status # 200 THEN AfterQueryFailure(Logged(p, resp), name)
  ELSE IF "data" \in DOMAIN resp.body
    THEN [p EXCEPT !.pc = "done",
                   !.result = [data |-> resp.body.data, site_info |-> info]]
  ELSE AfterQueryFailure(Logged(p, resp), name)

\* Lines 163-184: the handling of one answer of the query endpoint.
HandleQueryResponse(p, resp, name, info) ==
  IF IsExc(resp) THEN AfterQueryFailure(Logged(p, resp), name)
  ELSE IF resp.status # 200 THEN AfterQueryFailure(Logged(p, resp), name)
  ELSE IF "errors" \in DOMAIN resp.body /\ resp.body.errors # << >>
    THEN [p EXCEPT !.pc = "done",
                   !.result = [error |-> "GraphQL", site |-> name,
                               details |-> resp.body.errors]]
  ELSE IF "data" \in DOMAIN resp.body
    THEN [p EXCEPT !.pc = "done",
                   !.result = [data |-> resp.body.data, site_info |-> info]]
  ELSE AfterQueryFailure(Logged(p, resp), name)

\* Faulty variant of StartQuery: the query is sent without the token obtained.
StartQueryNoToken(p, tok, sid) == [p EXCEPT !.session = sid, !.attempt = 1]

\* Lines 199-204 and 102: with a token the pipeline enters query_site_data,
\* which takes the session again and starts its own loop at attempt 1.
StartQuery(p, tok, sid) ==
  [p EXCEPT !.token = tok, !.session = sid, !.attempt = 1]

\* Lines 200-204: what follows get_site_token's return of a token.
AfterToken(p, tok, sid, closed, name) ==
  IF tok = None
    THEN [p EXCEPT !.pc = "done", !.result = [error |-> "no_token", site |-> name]]
    ELSE IssueQuery(StartQuery(p, tok, sid), closed, name)

\* ------------------------------------------- extract_all_sites_data
\* Faulty variant of AllDone: the gather returns as soon as one task is done.
AllDoneFirstCompleted(ps, n) == \E i \in 1..n : ps[i].pc = "done"

\* Faulty variant of GatherResults: the results are taken in the order of completion.
GatherResultsCompletionOrder(ps, order) ==
  [i \in 1..Len(order) |-> ps[order[i]].result]

\* Line 226: gather waits until every task is done ...
AllDone(ps, n) == \A i \in 1..n : ps[i].pc = "done"

\* ... and returns the results in the order of the tasks (`order` is the
\* order in which the tasks completed, which gather does not use).
GatherResults(ps, order) == [i \in 1..Len(order) |-> ps[i].result]

IsException(result) == "exception" \in DOMAIN result

\* Lines 270-279.
MemberInfo(member, site_info) ==
  [member_id |-> member.id,
   site |-> IF "name" \in DOMAIN site_info THEN site_info.name ELSE Unknown,
   site_client_id |-> site_info.client_id,
   notes_count |-> Len(member.member_notes)]

\* Lines 286-295.
NoteWithMember(note, member, site_info) ==
  [note_id |-> note.id, created_at |-> note.created_at, member_id |-> member.id,
   site |-> IF "name" \in DOMAIN site_info THEN site_info.name ELSE Unknown]

\* Lines 268-297: the notes of the members, member by member, note by note.
RECURSIVE NotesOf(_, _)
NotesOf(members, site_info) ==
  IF members = << >> THEN << >>
  ELSE [i \in 1..Len(Head(members).member_notes) |->
          NoteWithMember(Head(members).member_notes[i], Head(members), site_info)]
       \o NotesOf(Tail(members), site_info)

\* Faulty variant of AddException: the entry is appended but not counted.
AddExceptionUncounted(md, result) ==
  [md EXCEPT !.errors = Append(@, [error |-> "Exception", message |-> result.exception])]

\* Faulty variant of AddError: the failure is counted but its entry is dropped.
AddErrorDropped(md, result) == [md EXCEPT !.error_count = @ + 1]

\* Lines 241-245.
AddException(md, result) ==
  [md EXCEPT !.error_count = @ + 1,
             !.errors = Append(@, [error |-> "Exception", message |-> result.exception])]

\* Lines 247-251.
AddError(md, result) ==
  [md EXCEPT !.error_count = @ + 1, !.errors = Append(@, result)]

\* Faulty variant of AddSuccess: the total is taken from the length of the member
\* list of the last site instead of being accumulated.
AddSuccessTotalFromList(md, result) ==
  LET site_info == result.site_info
      data == result.data
      member_count == IF "member_aggregate" \in DOMAIN data
                        THEN data.member_aggregate.aggregate.count ELSE 0
      members == IF "member" \in DOMAIN data THEN data.member ELSE << >>
      site_members == [i \in 1..Len(members) |-> MemberInfo(members[i], site_info)]
      site_notes == NotesOf(members, site_info)
  IN [md EXCEPT !.success_count = @ + 1,
                !.total_member_count = Len(members),
                !.members_info = @ \o site_members,
                !.merged_notes = @ \o site_notes,
                !.sites_data = Append(@, [site_info |-> site_info,
                                          member_count |-> member_count,
                                          notes_count |-> Len(site_notes),
                                          notes |-> site_notes,
                                          members |-> site_members])]

\* Faulty variant of AddSuccess: the notes of a site are kept in its summary only.
AddSuccessNotesNotMerged(md, result) ==
  LET site_info == result.site_info
      data == result.data
      member_count == IF "member_aggregate" \in DOMAIN data
                        THEN data.member_aggregate.aggregate.count ELSE 0
      members == IF "member" \in DOMAIN data THEN data.member ELSE << >>
      site_members == [i \in 1..Len(members) |-> MemberInfo(members[i], site_info)]
      site_notes == NotesOf(members, site_info)
  IN [md EXCEPT !.success_count = @ + 1,
                !.total_member_count = @ + member_count,
                !.members_info = @ \o site_members,
                !.sites_data = Append(@, [site_info |-> site_info,
                                          member_count |-> member_count,
                                          notes_count |-> Len(site_notes),
                                          notes |-> site_notes,
                                          members |-> site_members])]

\* Lines 253-305.
AddSuccess(md, result) ==
  LET site_info == result.site_info
      data == result.data
      member_count == IF "member_aggregate" \in DOMAIN data
                        THEN data.member_aggregate.aggregate.count ELSE 0
      members == IF "member" \in DOMAIN data THEN data.member ELSE << >>
      site_members == [i \in 1..Len(members) |-> MemberInfo(members[i], site_info)]
      site_notes == NotesOf(members, site_info)
  IN [md EXCEPT !.success_count = @ + 1,
                !.total_member_count = @ + member_count,
                !.members_info = @ \o site_members,
                !.merged_notes = @ \o site_notes,
                !.sites_data = Append(@, [site_info |-> site_info,
                                          member_count |-> member_count,
                                          notes_count |-> Len(site_notes),
                                          notes |-> site_notes,
                                          members |-> site_members])]

\* Lines 240-253: one turn of the loop over the results.
HandleResult(md, result) ==
  IF IsException(result) THEN AddException(md, result)
  ELSE IF "error" \in DOMAIN result THEN AddError(md, result)
  ELSE IF "data" \in DOMAIN result THEN AddSuccess(md, result)
  ELSE md

\* Line 259: result["data"].get(...) raises AttributeError when data is null.
ResultRaises(result) ==
  /\ ~IsException(result)
  /\ "error" \notin DOMAIN result
  /\ "data" \in DOMAIN result
  /\ IsNull(result.data)

AggregationRaises(results) == \E i \in 1..Len(results) : ResultRaises(results[i])

RECURSIVE MergeResults(_, _)
MergeResults(md, results) ==
  IF results = << >> THEN md
  ELSE MergeResults(HandleResult(md, Head(results)), Tail(results))

\* Line 312: list.sort(key=created_at, reverse=True) is stable: a note goes
\* before the first note with a strictly smaller created_at.
\* Faulty variant of InsertNote: a note goes before the notes of equal created_at.
RECURSIVE InsertNoteTiesFirst(_, _)
InsertNoteTiesFirst(sorted, x) ==
  IF sorted = << >> THEN << x >>
  ELSE IF Head(sorted).created_at <= x.created_at THEN << x >> \o sorted
  ELSE << Head(sorted) >> \o InsertNoteTiesFirst(Tail(sorted), x)

RECURSIVE InsertNote(_, _)
InsertNote(sorted, x) ==
  IF sorted = << >> THEN << x >>
  ELSE IF Head(sorted).created_at < x.created_at THEN << x >> \o sorted
  ELSE << Head(sorted) >> \o InsertNote(Tail(sorted), x)

RECURSIVE SortNotesInto(_, _)
SortNotesInto(sorted, rest) ==
  IF rest = << >> THEN sorted
  ELSE SortNotesInto(InsertNote(sorted, Head(rest)), Tail(rest))

SortNotes(notes) == SortNotesInto(<< >>, notes)

\* Faulty variant of MemberKeyLess: the key is member_id alone.
MemberKeyLessById(a, b) == a.member_id < b.member_id

\* Line 315: key (site, member_id), ascending, stable.
MemberKeyLess(a, b) ==
  a.site < b.site \/ (a.site = b.site /\ a.member_id < b.member_id)

RECURSIVE InsertMember(_, _)
InsertMember(sorted, x) ==
  IF sorted = << >> THEN << x >>
  ELSE IF MemberKeyLess(x, Head(sorted)) THEN << x >> \o sorted
  ELSE << Head(sorted) >> \o InsertMember(Tail(sorted), x)

RECURSIVE SortMembersInto(_, _)
SortMembersInto(sorted, rest) ==
  IF rest = << >> THEN sorted
  ELSE SortMembersInto(InsertMember(sorted, Head(rest)), Tail(rest))

SortMembers(members) == SortMembersInto(<< >>, members)

\* Lines 229-320: the aggregate of a results list on which the loop does not raise.
Aggregate(results) ==
  LET md == MergeResults(EmptyMerged, results)
  IN [md EXCEPT !.total_notes_count = Len(md.merged_notes),
                !.merged_notes = SortNotes(@),
                !.members_info = SortMembers(@)]

\* Lines 44-47, up to the await: close() runs on the session the extractor holds.
CloseSessionHeap(sess, heap) ==
  IF sess # None THEN [heap EXCEPT ![sess] = @ + 1] ELSE heap

\* ---------------------------------------------------------------- actions
\* A pipeline step ends: its locals are stored, and a finished pipeline is
\* recorded in the order of completion.
Commit(r, s, newp) ==
  /\ pipe' = [pipe EXCEPT ![r][s] = newp]
  /\ req' = IF newp.pc = "done"
              THEN [req EXCEPT ![r].finished = Append(@, s)]
              ELSE req

\* Faulty variant of Finish: merged_data is not a new dict for each call, the
\* loop goes on from the aggregate the previous call returned.
FinishAccumulating(r, results) ==
  LET raises == AggregationRaises(results)
      exit == IF raises THEN "raised" ELSE "returned"
      before == { r2 \in Requests : req[r2].exit = "returned" }
      left == IF before = {} THEN EmptyMerged
              ELSE req[CHOOSE r2 \in before : TRUE].merged_data
      md == MergeResults(left, results)
  IN /\ sessions' = CloseSessionHeap(session, sessions)
     /\ session' = session
     /\ req' = [req EXCEPT ![r].results = results,
                           ![r].merged_data =
                              IF raises THEN EmptyMerged
                              ELSE [md EXCEPT !.total_notes_count = Len(md.merged_notes),
                                              !.merged_notes = SortNotes(@),
                                              !.members_info = SortMembers(@)],
                           ![r].exit = exit,
                           ![r].pc = IF session # None THEN "closing" ELSE exit]

\* Lines 228-323 after the gather: the aggregation loop, the sorts, and the
\* finally block up to the await inside close_session.
Finish(r, results) ==
  LET raises == AggregationRaises(results)
      exit == IF raises THEN "raised" ELSE "returned"
  IN /\ sessions' = CloseSessionHeap(session, sessions)
     /\ session' = session
     /\ req' = [req EXCEPT ![r].results = results,
                           ![r].merged_data =
                              IF raises THEN EmptyMerged ELSE Aggregate(results),
                           ![r].exit = exit,
                           ![r].pc = IF session # None THEN "closing" ELSE exit]

\* Lines 207-226: extract_all_sites_data creates one task per site and awaits
\* the gather; with no site the gather is done at once and the coroutine runs
\* on to the finally block.
RequestStart(r) ==
  /\ req[r].pc = "idle"
  /\ IF NSites(r) = 0
       THEN Finish(r, << >>)
       ELSE /\ req' = [req EXCEPT ![r].pc = "gather"]
            /\ UNCHANGED << session, sessions >>
  /\ UNCHANGED pipe

\* Line 226: gather schedules the tasks of a request one after the other, so
\* their first steps run back to back in the event loop; a request is in its
\* burst when some of its tasks have taken their first step and some not.
MidBurst(r) ==
  /\ req[r].pc = "gather"
  /\ \E s \in 1..NSites(r) : pipe[r][s].pc # "init"
  /\ \E s \in 1..NSites(r) : pipe[r][s].pc = "init"

\* No other callback runs inside a burst.
Quiet == \A r \in Requests : ~MidBurst(r)

\* The tasks of one gather take their first step in the order of creation.
CanStart(r, s) ==
  /\ req[r].pc = "gather"
  /\ \A r2 \in Requests \ {r} : ~MidBurst(r2)
  /\ s \in 1..NSites(r)
  /\ pipe[r][s].pc = "init"
  /\ \A t \in 1..(s - 1) : pipe[r][t].pc # "init"

\* Lines 194-199, 49-69: the task starts, takes the session (creating it when
\* the extractor holds none) and issues the first authentication call.
PipelineStart(r, s) ==
  /\ CanStart(r, s)
  /\ LET sid == CreateSessionId(session, sessions)
         heap == CreateSessionHeap(session, sessions)
         p0 == [pipe[r][s] EXCEPT !.session = sid, !.attempt = 1]
     IN /\ session' = sid
        /\ sessions' = heap
        /\ Commit(r, s, IssueAuth(p0, Closed(heap, sid), SiteName(s)))

\* Lines 40-41, 51: the construction of the session raises; line 51 is outside
\* the try block, so the exception leaves process_single_site.
PipelineRaises(r, s) ==
  /\ CanStart(r, s)
  /\ session = None
  /\ Commit(r, s, [pipe[r][s] EXCEPT !.pc = "done",
                                     !.result = [exception |-> "session"]])
  /\ UNCHANGED << session, sessions >>

\* Lines 69-98, 199-204, 100-161: the answer to an authentication call.
AuthReply(r, s) ==
  /\ pipe[r][s].pc = "auth_wait"
  /\ LET p == pipe[r][s]
         resp == AuthResponse(r, s, req[r].all_sites[s], p.authCalls)
         tok == TokenFrom(resp)
         sid == CreateSessionId(session, sessions)
         heap == CreateSessionHeap(session, sessions)
     IN IF tok # None
          THEN /\ session' = sid
               /\ sessions' = heap
               /\ Commit(r, s, AfterToken(p, tok, sid, Closed(heap, sid), SiteName(s)))
          ELSE /\ UNCHANGED << session, sessions >>
               /\ Commit(r, s, AfterAuthFailure(Logged(p, resp), SiteName(s)))

\* Lines 95, 60-69: the backoff sleep ends and the next attempt is issued.
AuthWake(r, s) ==
  /\ pipe[r][s].pc = "auth_sleep"
  /\ LET p == [pipe[r][s] EXCEPT !.attempt = @ + 1]
     IN Commit(r, s, IssueAuth(p, Closed(sessions, p.session), SiteName(s)))
  /\ UNCHANGED << session, sessions >>

\* Lines 161-192: the answer to a query call.
QueryReply(r, s) ==
  /\ pipe[r][s].pc = "query_wait"
  /\ LET p == pipe[r][s]
         resp == QueryResponse(req[r].all_sites[s], p.queryCalls)
     IN Commit(r, s, HandleQueryResponse(p, resp, SiteName(s), SiteInfo(r, s)))
  /\ UNCHANGED << session, sessions >>

\* Lines 189, 152-161.
QueryWake(r, s) ==
  /\ pipe[r][s].pc = "query_sleep"
  /\ LET p == [pipe[r][s] EXCEPT !.attempt = @ + 1]
     IN Commit(r, s, IssueQuery(p, Closed(sessions, p.session), SiteName(s)))
  /\ UNCHANGED << session, sessions >>

\* A call in flight on a session that has been closed meanwhile fails with a
\* transport exception (lines 89-90, 183-184), unless its answer had arrived.
CallAborted(r, s) ==
  /\ pipe[r][s].pc \in {"auth_wait", "query_wait"}
  /\ Closed(sessions, pipe[r][s].session)
  /\ Commit(r, s, IF pipe[r][s].pc = "auth_wait"
                    THEN AfterAuthFailure(Logged(pipe[r][s], Exc), SiteName(s))
                    ELSE AfterQueryFailure(Logged(pipe[r][s], Exc), SiteName(s)))
  /\ UNCHANGED << session, sessions >>

\* Lines 226-323: every task is done, the gather returns.
GatherReturn(r) ==
  /\ req[r].pc = "gather"
  /\ AllDone(pipe[r], NSites(r))
  /\ Finish(r, GatherResults(pipe[r], req[r].finished))
  /\ UNCHANGED pipe

\* Lines 46-47 after the await, then the return or the re-raise.
CloseEnd(r) ==
  /\ req[r].pc = "closing"
  /\ session' = None
  /\ req' = [req EXCEPT ![r].pc = req[r].exit]
  /\ UNCHANGED << sessions, pipe >>

\* ------------------------------------------------------- specifications
\* A site that uses up the ten attempts of one of its steps.
IsSlow(sc) == sc.authOkAt = 0 \/ sc.q = "never" \/ sc.qAt = max_retries

\* request.all_site: up to NumSites sites, at most one of them slow.
SiteLists ==
  { l \in UNION { [1..n -> SiteScripts] : n \in 0..NumSites } :
      Cardinality({ i \in DOMAIN l : IsSlow(l[i]) }) <= 1 }

\* One request is served; no other request arrives while it runs.
Init ==
  /\ session = None
  /\ sessions = << >>
  /\ \E sites \in SiteLists :
       req = [r \in Requests |->
                IF r = 1 THEN NewReq("idle", sites) ELSE NewReq("absent", << >>)]
  /\ pipe = [r \in Requests |-> [s \in Sites |-> InitPipe]]

Next ==
  \/ \E r \in Requests, s \in Sites : PipelineStart(r, s)
  \/ \E r \in Requests, s \in Sites : PipelineRaises(r, s)
  \/ Quiet /\ \E r \in Requests : RequestStart(r)
  \/ Quiet /\ \E r \in Requests : GatherReturn(r)
  \/ Quiet /\ \E r \in Requests : CloseEnd(r)
  \/ Quiet /\ \E r \in Requests, s \in Sites : AuthReply(r, s)
  \/ Quiet /\ \E r \in Requests, s \in Sites : AuthWake(r, s)
  \/ Quiet /\ \E r \in Requests, s \in Sites : QueryReply(r, s)
  \/ Quiet /\ \E r \in Requests, s \in Sites : QueryWake(r, s)

Spec == Init /\ [][Next]_vars

\* One request, with every call answered or timed out (line 40) and every
\* sleep ended in finite time, on an event loop that runs what is ready. Its
\* sites never answer, answer at once, or answer the second token call.
LiveScripts ==
  { sc \in SiteScripts :
      \/ IsSlow(sc) /\ sc.q # "data"
      \/ ~IsSlow(sc) /\ sc.qAt = 1 /\ sc.payload \in {0, 2} }

LiveLists ==
  { l \in UNION { [1..n -> LiveScripts] : n \in 0..NumSites } :
      Cardinality({ i \in DOMAIN l : IsSlow(l[i]) }) <= 1 }

InitLive ==
  /\ session = None
  /\ sessions = << >>
  /\ \E sites \in LiveLists :
       req = [r \in Requests |->
                IF r = 1 THEN NewReq("idle", sites) ELSE NewReq("absent", << >>)]
  /\ pipe = [r \in Requests |-> [s \in Sites |-> InitPipe]]

SpecLive == InitLive /\ [][Next]_vars /\ WF_vars(Next)

\* Lines 342-364: the handler of /extract-data is entered for the next
\* request, here once the requests before it are over.
RequestArrive(r) ==
  /\ req[r].pc = "queued"
  /\ \A r2 \in Requests \ {r} : req[r2].pc \in {"absent", "returned", "raised"}
  /\ req' = [req EXCEPT ![r].pc = "idle"]
  /\ UNCHANGED << session, sessions, pipe >>

\* Sites that answer within two calls with a payload or an error list.
SeqScripts ==
  { sc \in SiteScripts :
      ~IsSlow(sc) /\ sc.payload # 3 }

SeqLists == UNION { [1..n -> SeqScripts] : n \in 0..NumSites }

\* One request is served, and after it a second one with the same site list
\* whose sites answer the same way, on the same extractor (line 325).
InitSeq ==
  /\ session = None
  /\ sessions = << >>
  /\ \E sites \in SeqLists :
       req = [r \in Requests |->
                IF r = 1 THEN NewReq("idle", sites)
                ELSE IF r = NumRequests THEN NewReq("queued", sites)
                ELSE NewReq("absent", << >>)]
  /\ pipe = [r \in Requests |-> [s \in Sites |-> InitPipe]]

NextSeq ==
  \/ Next
  \/ \E r \in Requests : RequestArrive(r)

SpecSeq == InitSeq /\ [][NextSeq]_vars

\* The requests overlap on the process-wide extractor (line 325). Each has
\* at most one site, which answers at the first call.
ConcScripts ==
  { sc \in SiteScripts : sc.authOkAt = 1 /\ sc.q = "data" /\ sc.qAt = 1 /\ sc.payload = 2 }

ConcLists == UNION { [1..n -> ConcScripts] : n \in 0..1 }

InitConc ==
  /\ session = None
  /\ sessions = << >>
  /\ \E lists \in [Requests -> ConcLists] :
       req = [r \in Requests |-> NewReq("idle", lists[r])]
  /\ pipe = [r \in Requests |-> [s \in Sites |-> InitPipe]]

NextConc ==
  \/ Next
  \/ Quiet /\ \E r \in Requests, s \in Sites : CallAborted(r, s)

SpecConc == InitConc /\ [][NextConc]_vars

\* ------------------------------------------------------------ properties
Active(r) == req[r].pc # "absent"
SitesOf(r) == 1..NSites(r)
Script(r, s) == req[r].all_sites[s]
Raised(r, s) == IsException(pipe[r][s].result)
Done(r, s) == pipe[r][s].pc = "done"
\* The aggregate exists: the loop and the sorts ran to the return statement.
Aggregated(r) == req[r].exit = "returned"
Over(r) == req[r].pc \in {"returned", "raised"}

\* What the upstream answers of a site determine for it, read off its script.
ExpectedResult(r, s) ==
  LET sc == Script(r, s)
  IN IF sc.authOkAt = 0 THEN [error |-> "no_token", site |-> SiteName(s)]
     ELSE IF sc.q = "never" THEN [error |-> "query_failed", site |-> SiteName(s)]
     ELSE IF sc.q = "errors"
       THEN [error |-> "GraphQL", site |-> SiteName(s), details |-> << 1 >>]
     ELSE [data |-> Payloads[sc.payload], site_info |-> SiteInfo(r, s)]

\* The entries of errors, sites_data, merged_notes, members_info of site s.
ErrorsOf(md, s) ==
  { i \in 1..Len(md.errors) :
      "site" \in DOMAIN md.errors[i] /\ md.errors[i].site = SiteName(s) }
ExceptionEntries(md) ==
  { i \in 1..Len(md.errors) : md.errors[i].error = "Exception" }
SummariesOf(md, s) ==
  { i \in 1..Len(md.sites_data) : md.sites_data[i].site_info.name = SiteName(s) }
NotesOfSite(md, s) ==
  { i \in 1..Len(md.merged_notes) : md.merged_notes[i].site = SiteName(s) }
MembersOfSite(md, s) ==
  { i \in 1..Len(md.members_info) : md.members_info[i].site = SiteName(s) }

RECURSIVE SumOver(_, _)
SumOver(seq, field) ==
  IF seq = << >> THEN 0 ELSE Head(seq)[field] + SumOver(Tail(seq), field)

\* C1: when extract_all_sites_data returns, every input site is accounted for
\* exactly once: len(sites_data) + len(errors) = N, success_count +
\* error_count = N, a site that did not raise has exactly one entry in
\* sites_data or errors, and each site that raised has one Exception entry.
C1_EverySiteAccountedOnce ==
  \A r \in Requests :
    Aggregated(r) =>
      LET md == req[r].merged_data
      IN /\ Len(md.sites_data) + Len(md.errors) = NSites(r)
         /\ md.success_count + md.error_count = NSites(r)
         /\ md.success_count = Len(md.sites_data)
         /\ \A s \in SitesOf(r) :
              ~Raised(r, s) =>
                Cardinality(ErrorsOf(md, s)) + Cardinality(SummariesOf(md, s)) = 1
         /\ Cardinality(ExceptionEntries(md))
              = Cardinality({ s \in SitesOf(r) : Raised(r, s) })

C1_Witness ==
  \E r \in Requests :
    /\ req[r].pc = "returned"
    /\ NSites(r) >= 2
    /\ req[r].merged_data.success_count >= 1
    /\ req[r].merged_data.error_count >= 1

\* C2 (as claimed): a 200 answer of the query endpoint whose data is null
\* ends in one Failure entry for that site and never makes the request fault.
C2_MalformedBodyIsSiteFailure ==
  \A r \in Requests :
    req[r].exit # "none" =>
      /\ req[r].exit = "returned"
      /\ \A s \in SitesOf(r) :
           (~Raised(r, s) /\ Script(r, s).q = "data"
              /\ Payloads[Script(r, s).payload] = PayNull) =>
             Cardinality(ErrorsOf(req[r].merged_data, s)) = 1

\* C3: a site whose authentication never yields a token makes exactly 10
\* authentication attempts and no query attempt, has one entry in errors and
\* none in sites_data, merged_notes and members_info, and every sibling ends
\* with the outcome its own upstream answers determine.
C3_AuthExhaustion ==
  \A r \in Requests : \A s \in SitesOf(r) :
    Script(r, s).authOkAt = 0 =>
      /\ pipe[r][s].queryCalls = 0
      /\ pipe[r][s].authCalls <= max_retries
      /\ (Done(r, s) /\ ~Raised(r, s)) =>
           /\ pipe[r][s].authCalls = max_retries
           /\ pipe[r][s].attempt = max_retries
           /\ pipe[r][s].token = None
           /\ \A t \in SitesOf(r) \ {s} :
                (Done(r, t) /\ ~Raised(r, t)) =>
                  pipe[r][t].result = ExpectedResult(r, t)
           /\ Aggregated(r) =>
                LET md == req[r].merged_data
                IN /\ Cardinality(ErrorsOf(md, s)) = 1
                   /\ SummariesOf(md, s) = {}
                   /\ NotesOfSite(md, s) = {}
                   /\ MembersOfSite(md, s) = {}

C3_Witness ==
  \E r \in Requests : \E s \in SitesOf(r) :
    /\ Script(r, s).authOkAt = 0
    /\ req[r].pc = "returned"
    /\ pipe[r][s].authCalls = max_retries
    /\ req[r].merged_data.success_count >= 1
    /\ Len(req[r].merged_data.merged_notes) > 0

\* C4: a 200 answer with a non-empty error list ends query_site_data on that
\* attempt: no sleep and no query call follow it (one call when it is the
\* first answer), and the site has exactly one entry in errors.
C4_ErrorListNotRetried ==
  \A r \in Requests : \A s \in SitesOf(r) :
    Script(r, s).q = "errors" =>
      /\ pipe[r][s].queryCalls <= Script(r, s).qAt
      /\ pipe[r][s].querySleeps < Script(r, s).qAt
      /\ pipe[r][s].queryCalls = Script(r, s).qAt =>
           pipe[r][s].pc \in {"query_wait", "done"}
      /\ (Done(r, s) /\ ~Raised(r, s)) =>
           /\ pipe[r][s].result = ExpectedResult(r, s)
           /\ pipe[r][s].queryCalls = Script(r, s).qAt
           /\ pipe[r][s].querySleeps = Script(r, s).qAt - 1
           /\ Aggregated(r) =>
                /\ Cardinality(ErrorsOf(req[r].merged_data, s)) = 1
                /\ SummariesOf(req[r].merged_data, s) = {}

C4_Witness ==
  \E r \in Requests : \E s \in SitesOf(r) :
    /\ Script(r, s).q = "errors"
    /\ Script(r, s).qAt = 1
    /\ req[r].pc = "returned"
    /\ pipe[r][s].queryCalls = 1
    /\ pipe[r][s].querySleeps = 0
    /\ pipe[r][s].result.error = "GraphQL"

\* C5: within one request the session is created only by a pipeline's first
\* use, no pipeline issues a call on a closed session, the session is closed
\* only after every pipeline has finished and exactly once on every exit path,
\* after which the extractor holds no session; a request without sites
\* creates and closes no session.
C5_SessionLifecycle ==
  \A r \in Requests :
    Active(r) =>
      /\ Len(sessions) <= 1
      /\ (\A s \in SitesOf(r) : pipe[r][s].pc = "init") => sessions = << >>
      /\ NSites(r) = 0 => sessions = << >>
      /\ \A s \in SitesOf(r) :
           /\ pipe[r][s].closedCalls = 0
           /\ pipe[r][s].session # None =>
                (Closed(sessions, pipe[r][s].session) => Done(r, s))
      /\ \A sid \in 1..Len(sessions) :
           /\ sessions[sid] <= 1
           /\ Closed(sessions, sid) =>
                /\ req[r].pc \in {"closing", "returned", "raised"}
                /\ \A s \in SitesOf(r) : Done(r, s)
      /\ Over(r) =>
           /\ session = None
           /\ \A sid \in 1..Len(sessions) : sessions[sid] = 1

C5_Witness ==
  \E r \in Requests :
    /\ req[r].pc = "raised"
    /\ NSites(r) >= 2
    /\ \E s \in SitesOf(r) : Raised(r, s)
    /\ session = None
    /\ Len(sessions) = 1
    /\ sessions[1] = 1

\* C6 (as claimed): requests that overlap share no mutable state: no pipeline
\* issues a call on a session that another request's close_session closed,
\* and a pipeline's outcome is the one its own upstream answers determine.
C6_RequestsIndependent ==
  \A r \in Requests : \A s \in SitesOf(r) :
    /\ pipe[r][s].closedCalls = 0
    /\ (Done(r, s) /\ ~Raised(r, s)) => pipe[r][s].result = ExpectedResult(r, s)

\* The per-site outcomes in the order of the input list.
ExpectedOutcomes(r) ==
  [s \in SitesOf(r) |->
     IF Raised(r, s) THEN pipe[r][s].result ELSE ExpectedResult(r, s)]

RECURSIVE InputOrderOf(_, _, _)
InputOrderOf(r, s, keep) ==
  IF s > NSites(r) THEN << >>
  ELSE (IF s \in keep THEN << SiteName(s) >> ELSE << >>)
         \o InputOrderOf(r, s + 1, keep)

SucceededSites(r) ==
  { s \in SitesOf(r) : ~Raised(r, s) /\ "data" \in DOMAIN ExpectedResult(r, s) }

\* C7: whatever the order in which the pipelines complete, the aggregate is
\* the one of the per-site outcomes taken in the order of the input list:
\* same sites_data, errors, merged_notes and members_info, in the same order.
C7_InputOrderKept ==
  \A r \in Requests :
    Aggregated(r) =>
      LET md == req[r].merged_data
      IN /\ [i \in 1..Len(md.sites_data) |-> md.sites_data[i].site_info.name]
              = InputOrderOf(r, 1, SucceededSites(r))
         \* SiteName decreases along the input list
         /\ LET named == { i \in 1..Len(md.errors) : "site" \in DOMAIN md.errors[i] }
            IN \A i, j \in named :
                 i < j => md.errors[i].site > md.errors[j].site
         /\ req[r].results = ExpectedOutcomes(r)
         /\ md = Aggregate(ExpectedOutcomes(r))

C7_Witness ==
  \E r \in Requests :
    /\ req[r].pc = "returned"
    /\ req[r].finished = << 2, 1 >>
    /\ req[r].merged_data.success_count = 2
    /\ Len(req[r].merged_data.merged_notes) > 0

\* C8 (amended): a pipeline that raises does not abort the batch: the gather
\* returns only when every pipeline is done, and the exception becomes one
\* entry {error: "Exception", message} of errors, which carries no site
\* field, and adds one to error_count.
C8_ExceptionBecomesEntry ==
  \A r \in Requests :
    /\ req[r].exit # "none" => \A s \in SitesOf(r) : Done(r, s)
    /\ Aggregated(r) =>
         LET md == req[r].merged_data
         IN /\ Cardinality(ExceptionEntries(md))
                 = Cardinality({ s \in SitesOf(r) : Raised(r, s) })
            /\ \A i \in ExceptionEntries(md) :
                 md.errors[i] = [error |-> "Exception", message |-> "session"]
            /\ md.error_count = Len(md.errors)
            /\ \A s \in SitesOf(r) :
                 ~Raised(r, s) =>
                   Cardinality(ErrorsOf(md, s)) + Cardinality(SummariesOf(md, s)) = 1

\* C8 (as claimed): the entry of a raised exception carries the site label
\* "unknown".
C8_ExceptionEntryLabelledUnknown ==
  \A r \in Requests :
    Aggregated(r) =>
      \A i \in ExceptionEntries(req[r].merged_data) :
        /\ "site" \in DOMAIN req[r].merged_data.errors[i]
        /\ req[r].merged_data.errors[i].site = Unknown

C8_Witness ==
  \E r \in Requests :
    /\ req[r].pc = "returned"
    /\ \E s \in SitesOf(r) : Raised(r, s)
    /\ req[r].merged_data.error_count = 1
    /\ req[r].merged_data.success_count >= 1

\* The count the query endpoint answered for a data object.
UpstreamCount(data) ==
  IF "member_aggregate" \in DOMAIN data
    THEN data.member_aggregate.aggregate.count ELSE 0

RECURSIVE ExpectedMemberTotal(_, _)
ExpectedMemberTotal(r, s) ==
  IF s > NSites(r) THEN 0
  ELSE (IF s \in SucceededSites(r)
          THEN UpstreamCount(Payloads[Script(r, s).payload]) ELSE 0)
       + ExpectedMemberTotal(r, s + 1)

\* C9: total_member_count is the sum of member_count over sites_data, which
\* is the sum of the upstream counts of the sites that succeeded.
C9_TotalMemberCount ==
  \A r \in Requests :
    Aggregated(r) =>
      LET md == req[r].merged_data
      IN /\ md.total_member_count = SumOver(md.sites_data, "member_count")
         /\ md.total_member_count = ExpectedMemberTotal(r, 1)

C9_Witness ==
  \E r \in Requests :
    /\ req[r].pc = "returned"
    /\ req[r].merged_data.total_member_count = 2
    /\ req[r].merged_data.success_count = 1
    /\ req[r].merged_data.error_count >= 1

\* C10: total_notes_count is the length of merged_notes and the sum of
\* notes_count over sites_data, and every note of merged_notes belongs to a
\* site of sites_data: no note of a failed site appears.
C10_TotalNotesCount ==
  \A r \in Requests :
    Aggregated(r) =>
      LET md == req[r].merged_data
      IN /\ md.total_notes_count = Len(md.merged_notes)
         /\ md.total_notes_count = SumOver(md.sites_data, "notes_count")
         /\ \A s \in SitesOf(r) :
              /\ s \notin SucceededSites(r) => NotesOfSite(md, s) = {}
              /\ \A i \in SummariesOf(md, s) :
                   Cardinality(NotesOfSite(md, s)) = md.sites_data[i].notes_count

C10_Witness ==
  \E r \in Requests :
    /\ req[r].pc = "returned"
    /\ req[r].merged_data.total_notes_count = 3
    /\ req[r].merged_data.error_count >= 1

\* The ids of the notes of a payload in the order the loop meets them: member
\* by member, and note by note within a member.
RECURSIVE NoteIdsInOrder(_)
NoteIdsInOrder(members) ==
  IF members = << >> THEN << >>
  ELSE [i \in 1..Len(Head(members).member_notes) |-> Head(members).member_notes[i].id]
       \o NoteIdsInOrder(Tail(members))

\* Where a merged note was met: the position of its site in the input list,
\* then its position among the notes of that site's payload.
SitePosition(n) == NumSites + 1 - n.site
PositionInSite(r, n) ==
  LET ids == NoteIdsInOrder(Payloads[Script(r, SitePosition(n)).payload].member)
  IN CHOOSE i \in 1..Len(ids) : ids[i] = n.note_id

MetBefore(r, a, b) ==
  \/ SitePosition(a) < SitePosition(b)
  \/ SitePosition(a) = SitePosition(b) /\ PositionInSite(r, a) < PositionInSite(r, b)

\* C11: merged_notes of a returned aggregate is in descending created_at, and
\* notes of equal created_at stand in the order they were met: input site
\* order, then member order, then note order within the member.
C11_NotesSortedStable ==
  \A r \in Requests :
    Aggregated(r) =>
      LET notes == req[r].merged_data.merged_notes
      IN \A i, j \in 1..Len(notes) :
           i < j =>
             \/ notes[i].created_at > notes[j].created_at
             \/ /\ notes[i].created_at = notes[j].created_at
                /\ MetBefore(r, notes[i], notes[j])

\* Two sites answer PayA: equal created_at occurs across sites, and across
\* members of one site.
C11_Witness ==
  \E r \in Requests :
    /\ Aggregated(r)
    /\ LET notes == req[r].merged_data.merged_notes
       IN /\ \E i, j \in 1..Len(notes) :
               /\ i < j
               /\ notes[i].created_at = notes[j].created_at
               /\ notes[i].site # notes[j].site
          /\ \E i, j \in 1..Len(notes) :
               /\ i < j
               /\ notes[i].created_at = notes[j].created_at
               /\ notes[i].site = notes[j].site
               /\ notes[i].member_id # notes[j].member_id

\* The members a successful site answered with.
MembersAnswered(r, s) == Payloads[Script(r, s).payload].member

RECURSIVE SumLen(_, _)
SumLen(r, sites) ==
  IF sites = {} THEN 0
  ELSE LET s == CHOOSE x \in sites : TRUE
       IN Len(MembersAnswered(r, s)) + SumLen(r, sites \ {s})

\* C12: members_info of a returned aggregate is in ascending order of
\* (site name, member id), and holds each member of each successful site
\* exactly once and nothing else.
C12_MembersSortedPermutation ==
  \A r \in Requests :
    Aggregated(r) =>
      LET ms == req[r].merged_data.members_info
      IN /\ \A i, j \in 1..Len(ms) :
              i < j =>
                \/ ms[i].site < ms[j].site
                \/ ms[i].site = ms[j].site /\ ms[i].member_id <= ms[j].member_id
         /\ \A s \in SucceededSites(r) :
              \A k \in 1..Len(MembersAnswered(r, s)) :
                Cardinality({ i \in 1..Len(ms) :
                               /\ ms[i].site = SiteName(s)
                               /\ ms[i].member_id = MembersAnswered(r, s)[k].id }) = 1
         /\ Len(ms) = SumLen(r, SucceededSites(r))

\* The first site answers PayA (member ids 2, 1) and the second PayB (id 3):
\* input order, site order and member id order all differ.
C12_Witness ==
  \E r \in Requests :
    /\ Aggregated(r)
    /\ NSites(r) = NumSites
    /\ Script(r, 1).payload = 1
    /\ Script(r, NumSites).payload = 2
    /\ SucceededSites(r) = SitesOf(r)
    /\ Len(req[r].merged_data.members_info) >= 3

C14_AttemptsBoundedStopAtSuccess ==
  \A r \in Requests : \A s \in SitesOf(r) :
    LET p == pipe[r][s]
        sc == Script(r, s)
    IN /\ p.authCalls <= max_retries
       /\ p.queryCalls <= max_retries
       /\ sc.authOkAt # 0 =>
            /\ p.authCalls <= sc.authOkAt
            /\ p.authSleeps < sc.authOkAt
            /\ p.token # None =>
                 (p.authCalls = sc.authOkAt /\ p.authSleeps = sc.authOkAt - 1)
       /\ sc.q = "data" =>
            /\ p.queryCalls <= sc.qAt
            /\ p.querySleeps < sc.qAt
            /\ (Done(r, s) /\ "data" \in DOMAIN p.result) =>
                 (p.queryCalls = sc.qAt /\ p.querySleeps = sc.qAt - 1)

\* The query step of a site succeeds at its last attempt, after nine sleeps.
C14_Witness ==
  \E r \in Requests : \E s \in SitesOf(r) :
    /\ Done(r, s)
    /\ "data" \in DOMAIN pipe[r][s].result
    /\ pipe[r][s].authCalls = 1
    /\ pipe[r][s].queryCalls = max_retries
    /\ pipe[r][s].querySleeps = max_retries - 1
    /\ req[r].pc = "returned"

\* The sleeps after the 1st, 2nd, ... failed attempt of a step.
BackoffTable == << 2, 4, 8, 16, 30, 30, 30, 30, 30 >>

\* C15: the sleep after the k-th failed attempt of a step lasts min(2^k, 30),
\* it is the k-th sleep of the step and k < max_retries; a step that
\* exhausts its attempts has slept exactly max_retries - 1 times.
C15_BackoffSchedule ==
  \A r \in Requests : \A s \in SitesOf(r) :
    LET p == pipe[r][s]
    IN /\ p.pc = "auth_sleep" =>
            /\ p.attempt < max_retries
            /\ p.authSleeps = p.attempt
            /\ p.wait = BackoffTable[p.attempt]
       /\ p.pc = "query_sleep" =>
            /\ p.attempt < max_retries
            /\ p.querySleeps = p.attempt
            /\ p.wait = BackoffTable[p.attempt]
       /\ (Done(r, s) /\ p.result = [error |-> "no_token", site |-> SiteName(s)]) =>
            (p.authCalls = max_retries /\ p.authSleeps = Len(BackoffTable))
       /\ (Done(r, s) /\ p.result = [error |-> "query_failed", site |-> SiteName(s)]) =>
            (p.queryCalls = max_retries /\ p.querySleeps = Len(BackoffTable))

\* A query step has failed ten times after nine sleeps, the last of 30.
C15_Witness ==
  \E r \in Requests : \E s \in SitesOf(r) :
    /\ Done(r, s)
    /\ pipe[r][s].result = [error |-> "query_failed", site |-> SiteName(s)]
    /\ pipe[r][s].querySleeps = Len(BackoffTable)
    /\ pipe[r][s].wait = BackoffTable[Len(BackoffTable)]

\* A step of the site ran out of attempts.
Exhausted(r, s) ==
  /\ Done(r, s)
  /\ "error" \in DOMAIN pipe[r][s].result
  /\ pipe[r][s].result.error \in {"no_token", "query_failed"}

\* C16 (as claimed): the failure a step returns when all its attempts failed
\* carries the error of the final attempt: beside the fixed label and the
\* site name, the entry has a component that holds the last error observed.
C16_FailureCarriesLastError ==
  \A r \in Requests : \A s \in SitesOf(r) :
    Exhausted(r, s) =>
      /\ pipe[r][s].lastError # "none"
      /\ \E f \in DOMAIN pipe[r][s].result \ {"error", "site"} :
           pipe[r][s].result[f] = pipe[r][s].lastError

\* The stage of a site pipeline: before its first step, inside
\* get_site_token, inside query_site_data, or returned.
PhaseOf(p) ==
  CASE p.pc = "init" -> "Start"
    [] p.pc \in {"auth_wait", "auth_sleep"} -> "Authenticating"
    [] p.pc \in {"query_wait", "query_sleep"} -> "Querying"
    [] p.pc = "done" /\ "data" \in DOMAIN p.result -> "Succeeded"
    [] OTHER -> "Failed"

\* The transitions of the claim. The exception of line 51 is raised inside
\* get_site_token by the pipeline's first step, which enters Authenticating
\* and leaves it for Failed without suspending in between.
PhaseStep(p, q) ==
  \/ PhaseOf(q) = PhaseOf(p)
  \/ PhaseOf(p) = "Start" /\ PhaseOf(q) = "Authenticating"
  \/ PhaseOf(p) = "Start" /\ PhaseOf(q) = "Failed" /\ IsException(q.result)
  \/ PhaseOf(p) = "Authenticating" /\ PhaseOf(q) \in {"Querying", "Failed"}
  \/ PhaseOf(p) = "Querying" /\ PhaseOf(q) \in {"Failed", "Succeeded"}

\* C17: a site pipeline moves only along Start -> Authenticating ->
\* (Failed | Querying) -> (Failed | Succeeded); a query call is issued only
\* from Authenticating or Querying, once the site's own authentication has
\* answered with a token in this request, and carries that token; nothing of
\* a pipeline changes once it is Failed or Succeeded.
C17_PipelineStateMachine ==
  [][ \A r \in Requests : \A s \in SitesOf(r) :
        LET p == pipe[r][s]
            q == pipe'[r][s]
        IN /\ PhaseStep(p, q)
           /\ PhaseOf(q) = "Querying" => q.token = TokenOf(r, s)
           /\ q.queryCalls > p.queryCalls =>
                /\ PhaseOf(p) \in {"Authenticating", "Querying"}
                /\ q.token = TokenOf(r, s)
                /\ Script(r, s).authOkAt # 0
                /\ q.authCalls = Script(r, s).authOkAt
           /\ q.authCalls > p.authCalls => PhaseOf(p) \in {"Start", "Authenticating"}
           /\ PhaseOf(p) \in {"Failed", "Succeeded"} => q = p ]_vars

\* One pipeline is Succeeded after a query with its token, a sibling is Failed
\* out of Authenticating without any query call.
C17_Witness ==
  \E r \in Requests : \E s1, s2 \in SitesOf(r) :
    /\ PhaseOf(pipe[r][s1]) = "Succeeded"
    /\ pipe[r][s1].token = TokenOf(r, s1)
    /\ pipe[r][s1].queryCalls >= 1
    /\ PhaseOf(pipe[r][s2]) = "Failed"
    /\ pipe[r][s2].result = [error |-> "no_token", site |-> SiteName(s2)]
    /\ pipe[r][s2].queryCalls = 0

\* C18: when calls and sleeps complete, every request comes to its end; each
\* pipeline gets there within max_retries authentication and max_retries
\* query calls; extract_all_sites_data leaves the gather only when all its
\* pipelines are terminal; and no pipeline is cut short by a sibling: each
\* ends with the outcome its own upstream answers determine.
C18_EveryRequestReturns ==
  /\ <>(\A r \in Requests : Active(r) => Over(r))
  /\ [](\A r \in Requests : \A s \in SitesOf(r) :
          /\ pipe[r][s].authCalls <= max_retries
          /\ pipe[r][s].queryCalls <= max_retries
          /\ req[r].exit # "none" => PhaseOf(pipe[r][s]) \in {"Failed", "Succeeded"}
          /\ (Done(r, s) /\ ~Raised(r, s)) => pipe[r][s].result = ExpectedResult(r, s))

\* The request has returned; one site used up ten authentication calls, and
\* its sibling went on to succeed.
C18_Witness ==
  \E r \in Requests : \E s1, s2 \in SitesOf(r) :
    /\ req[r].pc = "returned"
    /\ pipe[r][s1].authCalls = max_retries
    /\ PhaseOf(pipe[r][s1]) = "Failed"
    /\ PhaseOf(pipe[r][s2]) = "Succeeded"

\* C19 (as claimed): however the requests overlap on the extractor, once all
\* of them are over every session that create_session constructed has been
\* closed.
C19_NoSessionLeak ==
  (\A r \in Requests : Over(r)) =>
    \A sid \in 1..Len(sessions) : Closed(sessions, sid)

\* The pipelines of r that have taken a session from create_session.
HoldsSession(r) ==
  { s \in SitesOf(r) : pipe[r][s].pc # "init" /\ ~Raised(r, s) }

\* C20: within one request, served alone, create_session constructs exactly
\* one session however many pipelines call it, at the start of their
\* authentication and again at the start of their query, and every pipeline
\* holds that one session.
C20_OneSessionPerRequest ==
  \A r \in Requests :
    /\ Len(sessions) <= 1
    /\ HoldsSession(r) # {} => Len(sessions) = 1
    /\ \A s \in HoldsSession(r) : pipe[r][s].session = Len(sessions)
    /\ \A s1, s2 \in HoldsSession(r) : pipe[r][s1].session = pipe[r][s2].session

\* All the pipelines of a request are in their query step, on the one session.
C20_Witness ==
  \E r \in Requests :
    /\ NSites(r) = NumSites
    /\ NumSites > 1
    /\ Len(sessions) = 1
    /\ \A s \in SitesOf(r) :
         /\ pipe[r][s].pc = "query_wait"
         /\ pipe[r][s].token # None
         /\ pipe[r][s].session = session

====
